---- MODULE Spec2Model ----
(***************************************************************************)
(* Model of the DrawAndWalkBackend HTTP handlers (functions/src/index.ts). *)
(* The state is the document store (collections Ink, Drawings, Teams of    *)
(* database "Distances") and, for every request, the position of its       *)
(* handler between two awaited store calls, its locals, its MongoClient    *)
(* and the response it sent.  Every awaited store call is one atomic step. *)
(***************************************************************************)
EXTENDS Integers, Sequences, FiniteSets, TLC

\* ---------------------------------------------------------------- bounds
\* Number of requests of one behaviour; request p is handled by process p.
MaxRequests == 3

\* Number of requests the concurrent specification has in flight at once.
MaxInFlight == 2

Procs == 1..MaxRequests

\* ------------------------------------------------------- program constants
LeaderboardLimit == 100
DrawingsLimit == 100

\* --------------------------------------------------------- JSON values
\* A JSON string field is a TLA+ string; two sentinels stand for a field
\* that is absent and for a field that holds a truthy value of another type
\* (a number, an object) instead of a string.
UNDEF == "undefined"
NONSTR == "#non-string"

Truthy(v) == v \notin {UNDEF, ""}
IsString(v) == v \notin {UNDEF, NONSTR}

Emails == {"a@x.com", "b@x.com"}

\* ObjectId: the n-th id the store hands out is the natural n; oid 0 is a
\* well-formed id that no document ever gets.
HexDigit == <<"0", "1", "2", "3", "4", "5", "6", "7", "8", "9">>
OidToString(n) == "65f00000000000000000000" \o HexDigit[n + 1]
BadHex == "not-an-object-id"
Oids == 0..(Len(HexDigit) - 1)
IsValidOid(s) == \E n \in Oids : OidToString(n) = s
ParseOid(s) == CHOOSE n \in Oids : OidToString(n) = s
PhantomId == OidToString(0)

\* number-typed field: [t |-> "number", n |-> value] or another typeof
Number(n) == [t |-> "number", n |-> n]
NotNumber(t) == [t |-> t, n |-> 0]
\* array-typed field: [t |-> "array", a |-> elements] or another typeof
Array(a) == [t |-> "array", a |-> a]
NotArray(t) == [t |-> t, a |-> <<>>]
IsArray(v) == v.t = "array"

\* The fields a request can carry (body or query); absent ones are UNDEF.
Blank ==
  [op |-> "none", email |-> UNDEF, username |-> UNDEF,
   distance |-> NotNumber("undefined"), timestamp |-> 0,
   coordinates |-> NotArray("undefined"), isPublic |-> UNDEF,
   teamIds |-> NotArray("undefined"), drawingId |-> UNDEF,
   voterEmail |-> UNDEF, sortBy |-> UNDEF, teamName |-> UNDEF,
   teamId |-> UNDEF]

\* server clock readings of new Date().toISOString(); client timestamps are
\* the naturals 1 and 3, 0 is an absent timestamp
ServerTimes == {2}

NoResp == [status |-> 0, msg |-> "", total |-> 0, id |-> "", list |-> <<>>]
Resp(status, msg) == [NoResp EXCEPT !.status = status, !.msg = msg]

\* locals of a handler: newTotalDistance, displayUsername, drawingId, the
\* team updates of Promise.all still in flight, those whose catch logged an
\* error, and the drawingIds read by getTeamDrawings
NoLoc ==
  [total |-> 0, uname |-> "", did |-> "", pending |-> {}, failed |-> {},
   ids |-> <<>>]

VARIABLES
  ink,        \* collection Ink: sequence of distance records
  drawings,   \* collection Drawings: ObjectId -> document
  teams,      \* collection Teams: ObjectId -> document
  nextOid,    \* the next ObjectId the store hands out
  pc,         \* position of each handler
  req,        \* the request each handler serves
  client,     \* its MongoClient: "none", "created", "connected", "closed"
  loc,        \* its locals
  resp        \* the response it sent (status 0: none yet)

vars == <<ink, drawings, teams, nextOid, pc, req, client, loc, resp>>
store == <<ink, drawings, teams, nextOid>>

Init ==
  /\ ink = <<>>
  /\ drawings = <<>>
  /\ teams = <<>>
  /\ nextOid = 1
  /\ pc = [p \in Procs |-> "idle"]
  /\ req = [p \in Procs |-> Blank]
  /\ client = [p \in Procs |-> "none"]
  /\ loc = [p \in Procs |-> NoLoc]
  /\ resp = [p \in Procs |-> NoResp]

\* ------------------------------------------------------------ validation
\* the check without its typeof test
InvalidEmailFalsyOnly(r) == ~Truthy(r.email)

\* !email || typeof email !== "string"
InvalidEmail(r) == ~Truthy(r.email) \/ ~IsString(r.email)

ValidationError(r) ==
  CASE r.op = "updateDistance" ->
         IF InvalidEmail(r)
           THEN "Request must include an 'email' parameter of type string"
         ELSE IF r.distance.t # "number"
           THEN "Request must include a 'distance' parameter of type number"
         ELSE ""
    [] r.op = "saveDrawing" ->
         IF InvalidEmail(r)
           THEN "Request must include an 'email' parameter of type string"
         ELSE IF ~IsArray(r.coordinates)
           THEN "Request must include a 'coordinates' parameter of type array"
         ELSE ""
    [] r.op = "voteForDrawing" ->
         IF ~Truthy(r.drawingId) \/ ~IsString(r.drawingId)
           THEN "Request must include a 'drawingId' parameter of type string"
         ELSE IF ~Truthy(r.voterEmail) \/ ~IsString(r.voterEmail)
           THEN "Request must include a 'voterEmail' parameter of type string"
         ELSE ""
    [] r.op = "getDrawingsSorted" ->
         IF ~Truthy(r.sortBy) \/ (r.sortBy # "votes" /\ r.sortBy # "date")
           THEN "Query must include a 'sortBy' parameter with value 'votes' or 'date'"
         ELSE ""
    [] r.op = "createTeam" ->
         IF ~Truthy(r.teamName) \/ ~IsString(r.teamName)
           THEN "Request must include a 'teamName' parameter of type string"
         ELSE IF InvalidEmail(r)
           THEN "Request must include an 'email' parameter of type string"
         ELSE ""
    [] r.op = "getTeams" ->
         IF InvalidEmail(r)
           THEN "Request must include an 'email' parameter of type string"
         ELSE ""
    [] r.op = "getTeamDrawings" ->
         IF ~Truthy(r.teamId) \/ ~IsString(r.teamId)
           THEN "Request must include a 'teamId' parameter of type string"
         ELSE ""
    [] OTHER -> ""

\* the message of each handler's catch block
CatchMessage(op) ==
  CASE op = "updateDistance" -> "An error occurred while updating the distance"
    [] op = "getLeaderboard" -> "An error occurred while getting the leaderboard"
    [] op = "saveDrawing" -> "An error occurred while saving the drawing"
    [] op = "voteForDrawing" -> "An error occurred while voting for the drawing"
    [] op = "getDrawingsSorted" -> "An error occurred while getting the drawings"
    [] op = "createTeam" -> "An error occurred while creating the team"
    [] op = "getTeams" -> "An error occurred while getting the teams"
    [] op = "getTeamDrawings" -> "An error occurred while getting the team drawings"
    [] OTHER -> ""

\* the first awaited store call of each handler after connect()
FirstStep(op) ==
  CASE op = "updateDistance" -> "ud_findOne"
    [] op = "getLeaderboard" -> "gl_find"
    [] op = "saveDrawing" -> "sd_insertOne"
    [] op = "voteForDrawing" -> "v_findOne"
    [] op = "getDrawingsSorted" -> "gds_find"
    [] op = "createTeam" -> "ct_insertOne"
    [] op = "getTeams" -> "gt_find"
    [] op = "getTeamDrawings" -> "gtd_findOne"
    [] OTHER -> "done"

\* ------------------------------------------------------ request inputs
Coords == Array(<<[lat |-> 1, lng |-> 2]>>)

UpdateDistanceReq(email, distance, username) ==
  [Blank EXCEPT !.op = "updateDistance", !.email = email,
                !.distance = distance, !.username = username]
SaveDrawingReq(email, coordinates, teamIds, isPublic, timestamp) ==
  [Blank EXCEPT !.op = "saveDrawing", !.email = email,
                !.coordinates = coordinates, !.teamIds = teamIds,
                !.isPublic = isPublic, !.timestamp = timestamp]
VoteReq(drawingId, voterEmail) ==
  [Blank EXCEPT !.op = "voteForDrawing", !.drawingId = drawingId,
                !.voterEmail = voterEmail]
SortedReq(sortBy) == [Blank EXCEPT !.op = "getDrawingsSorted", !.sortBy = sortBy]
CreateTeamReq(teamName, email) ==
  [Blank EXCEPT !.op = "createTeam", !.teamName = teamName, !.email = email]
GetTeamsReq(email) == [Blank EXCEPT !.op = "getTeams", !.email = email]
TeamDrawingsReq(teamId) ==
  [Blank EXCEPT !.op = "getTeamDrawings", !.teamId = teamId]
LeaderboardReq == [Blank EXCEPT !.op = "getLeaderboard"]

\* Ids a client can name: the ids earlier responses returned (documents that
\* exist), a well-formed id of no document, and a string that is no ObjectId.
TeamIdStrs == {OidToString(t) : t \in DOMAIN teams}
DrawingIdStrs == {OidToString(d) : d \in DOMAIN drawings}

ValidBodies ==
  {UpdateDistanceReq("a@x.com", Number(1), UNDEF),
   UpdateDistanceReq("a@x.com", Number(2), "Bob"),
   UpdateDistanceReq("a@x.com", Number(-1), UNDEF),
   UpdateDistanceReq("b@x.com", Number(1), UNDEF)}
  \cup {SaveDrawingReq("a@x.com", Coords, NotArray("undefined"), "true", 1),
        SaveDrawingReq("b@x.com", Array(<<>>), NotArray("string"), "'true'", 3)}
  \cup {SaveDrawingReq("a@x.com", Coords, Array(<<t>>), UNDEF, 0) :
          t \in TeamIdStrs \cup {PhantomId}}
  \cup {SaveDrawingReq("a@x.com", Coords, Array(<<tu[1], tu[2]>>), UNDEF, 0) :
          tu \in {x \in TeamIdStrs \X (TeamIdStrs \cup {PhantomId, BadHex}) :
                    x[1] # x[2]}}
  \cup {VoteReq(d, v) : d \in DrawingIdStrs, v \in Emails}
  \cup {VoteReq(PhantomId, "a@x.com"), VoteReq(BadHex, "a@x.com")}
  \cup {SortedReq("votes"), SortedReq("date")}
  \cup {CreateTeamReq("Walkers", "a@x.com")}
  \cup {GetTeamsReq("a@x.com")}
  \cup {TeamDrawingsReq(t) : t \in TeamIdStrs \cup {PhantomId, BadHex}}
  \cup {LeaderboardReq}

\* one required field absent, empty or of another type
InvalidBodies ==
  {UpdateDistanceReq(e, Number(1), UNDEF) : e \in {UNDEF, NONSTR, ""}}
  \cup {UpdateDistanceReq("a@x.com", NotNumber(t), UNDEF) :
          t \in {"undefined", "string"}}
  \cup {SaveDrawingReq(e, Coords, NotArray("undefined"), UNDEF, 0) :
          e \in {UNDEF, NONSTR}}
  \cup {SaveDrawingReq("a@x.com", NotArray(t), NotArray("undefined"), UNDEF, 0) :
          t \in {"undefined", "string"}}
  \cup {VoteReq(d, "a@x.com") : d \in {UNDEF, NONSTR}}
  \cup {VoteReq(PhantomId, v) : v \in {UNDEF, NONSTR}}
  \cup {SortedReq(s) : s \in {UNDEF, "other"}}
  \cup {CreateTeamReq(n, "a@x.com") : n \in {UNDEF, NONSTR}}
  \cup {CreateTeamReq("Walkers", e) : e \in {UNDEF, NONSTR}}
  \cup {GetTeamsReq(e) : e \in {UNDEF, NONSTR}}
  \cup {TeamDrawingsReq(t) : t \in {UNDEF, NONSTR}}

Bodies == ValidBodies \cup InvalidBodies

\* the requests of the concurrent specification: a malformed request is
\* answered in its first step and interleaves with nothing
ConcurrentBodies ==
  {UpdateDistanceReq("a@x.com", Number(1), UNDEF),
   UpdateDistanceReq("a@x.com", Number(2), "Bob"),
   UpdateDistanceReq("a@x.com", Number(-1), UNDEF)}
  \cup {SaveDrawingReq("a@x.com", Coords, NotArray("undefined"), "true", 1)}
  \cup {SaveDrawingReq("a@x.com", Coords, Array(<<t>>), UNDEF, 0) :
          t \in TeamIdStrs \cup {PhantomId}}
  \cup {SaveDrawingReq("a@x.com", Coords, Array(<<tu[1], tu[2]>>), UNDEF, 0) :
          tu \in {x \in TeamIdStrs \X (TeamIdStrs \cup {PhantomId, BadHex}) :
                    x[1] # x[2]}}
  \cup {VoteReq(d, v) : d \in DrawingIdStrs, v \in Emails}
  \cup {VoteReq(PhantomId, "a@x.com"), VoteReq(UNDEF, "a@x.com")}
  \cup {SortedReq("votes"), CreateTeamReq("Walkers", "a@x.com"),
        GetTeamsReq("a@x.com"), LeaderboardReq}
  \cup {TeamDrawingsReq(t) : t \in TeamIdStrs \cup {PhantomId}}

\* ------------------------------------------------- entry of a handler
\* Requests arrive in the order of their process numbers; one at a time
\* when oneAtATime, and else at most MaxInFlight of them at once.  The handler validates the body, answers 400 and
\* returns from inside try (client is still undefined in finally), or
\* builds its MongoClient.
BeginReq(p, r, oneAtATime) ==
  /\ pc[p] = "idle"
  /\ \A q \in Procs : q < p => pc[q] # "idle"
  /\ Cardinality({q \in Procs : pc[q] \notin {"idle", "done"}})
       < (IF oneAtATime THEN 1 ELSE MaxInFlight)
  /\ req' = [req EXCEPT ![p] = r]
  /\ IF ValidationError(r) # ""
       THEN /\ resp' = [resp EXCEPT ![p] = Resp(400, ValidationError(r))]
            /\ pc' = [pc EXCEPT ![p] = "done"]
            /\ UNCHANGED client
       ELSE /\ client' = [client EXCEPT ![p] = "created"]
            /\ pc' = [pc EXCEPT ![p] = "connect"]
            /\ UNCHANGED resp
  /\ UNCHANGED <<store, loc>>

Begin(p) == \E r \in ConcurrentBodies : BeginReq(p, r, FALSE)
BeginOneAtATime(p) == \E r \in Bodies : BeginReq(p, r, TRUE)

\* await client.connect()
Connect(p) ==
  /\ pc[p] = "connect"
  /\ client' = [client EXCEPT ![p] = "connected"]
  /\ pc' = [pc EXCEPT ![p] = FirstStep(req[p].op)]
  /\ UNCHANGED <<store, req, loc, resp>>

\* an awaited store call (connect included) rejects: the handler's catch
\* block answers 500; the store is left as it was
StoreSteps ==
  {"connect", "ud_findOne", "ud_updateOne", "ud_upsert", "gl_find",
   "sd_insertOne", "v_findOne", "v_updateOne", "gds_find", "ct_insertOne",
   "gt_find", "gtd_findOne", "gtd_find"}

StoreError(p) ==
  /\ pc[p] \in StoreSteps
  /\ resp' = [resp EXCEPT ![p] = Resp(500, CatchMessage(req[p].op))]
  /\ pc' = [pc EXCEPT ![p] = "finally"]
  /\ UNCHANGED <<store, req, client, loc>>

\* a finally block that closes only a client whose connect() went through
CloseIfConnected(c) == IF c = "connected" THEN "closed" ELSE c

\* if (client) { await client.close(); }
Close(c) == IF c = "none" THEN "none" ELSE "closed"

\* finally { ... }
Finally(p) ==
  /\ pc[p] = "finally"
  /\ client' = [client EXCEPT ![p] = Close(client[p])]
  /\ pc' = [pc EXCEPT ![p] = "done"]
  /\ UNCHANGED <<store, req, loc, resp>>

\* ------------------------------------------------ store: generic helpers
Range(f) == {f[i] : i \in DOMAIN f}

\* documents of the key set S in the order of the strict total order
\* before, a set of pairs <<x, y>>: x comes before y
Sorted(S, before) ==
  [i \in 1..Cardinality(S) |->
     CHOOSE x \in S : Cardinality({y \in S : <<y, x>> \in before}) = i - 1]

Limit(q, n) == IF Len(q) <= n THEN q ELSE SubSeq(q, 1, n)

\* an update that keeps the array as it is
AddToSetNothing(q, x) == q

\* $addToSet
AddToSet(q, x) == IF x \in Range(q) THEN q ELSE Append(q, x)

\* value || fallback, for a timestamp (0 is an absent one)
TimeOr(timestamp, now) == IF timestamp # 0 THEN timestamp ELSE now

\* --------------------------------------------------------- updateDistance
\* collection.findOne({email}): index of the first match, 0 for null
FindInk(email) ==
  IF \E i \in DOMAIN ink : ink[i].email = email
    THEN CHOOSE i \in DOMAIN ink :
           /\ ink[i].email = email
           /\ \A j \in DOMAIN ink : ink[j].email = email => i <= j
    ELSE 0

CurrentDistance(i) == IF i = 0 THEN 0 ELSE ink[i].distance

\* the total computed from the request alone
NewTotalDistanceOverwrite(currentDistance, distance) == distance

NewTotalDistance(currentDistance, distance) == currentDistance + distance

\* username || existingRecord?.username || "Anonymous"
DisplayUsername(username, i) ==
  IF Truthy(username) THEN username
  ELSE IF i # 0 /\ Truthy(ink[i].username) THEN ink[i].username
  ELSE "Anonymous"

UD_FindOne(p) ==
  /\ pc[p] = "ud_findOne"
  /\ LET i == FindInk(req[p].email) IN
       loc' = [loc EXCEPT
                 ![p].total = NewTotalDistance(CurrentDistance(i), req[p].distance.n),
                 ![p].uname = DisplayUsername(req[p].username, i)]
  /\ pc' = [pc EXCEPT ![p] = "ud_updateOne"]
  /\ UNCHANGED <<store, req, client, resp>>

\* the record that $set writes
InkDoc(p, now) ==
  [email |-> req[p].email, username |-> loc[p].uname,
   distance |-> loc[p].total,
   lastUpdated |-> TimeOr(req[p].timestamp, now)]

\* updateOne({email}, {$set: ...}, {upsert: true}): the matching phase.
\* A matched record is rewritten in place.  With no match the server goes on
\* to insert; the collection carries no unique index on email (the code
\* creates none), so the two phases of an upsert are not one atomic step
\* and another request's write can fall between them.
UD_UpdateOne(p) ==
  /\ pc[p] = "ud_updateOne"
  /\ LET i == FindInk(req[p].email) IN
       IF i # 0
         THEN /\ \E now \in ServerTimes : ink' = [ink EXCEPT ![i] = InkDoc(p, now)]
              /\ resp' = [resp EXCEPT ![p] =
                   [Resp(200, "Record updated") EXCEPT !.total = loc[p].total]]
              /\ pc' = [pc EXCEPT ![p] = "finally"]
         ELSE /\ pc' = [pc EXCEPT ![p] = "ud_upsert"]
              /\ UNCHANGED <<ink, resp>>
  /\ UNCHANGED <<drawings, teams, nextOid, req, client, loc>>

\* the insert phase of the upsert: result.upsertedCount > 0
UD_Upsert(p) ==
  /\ pc[p] = "ud_upsert"
  /\ \E now \in ServerTimes : ink' = Append(ink, InkDoc(p, now))
  /\ resp' = [resp EXCEPT ![p] =
       [Resp(200, "Record created") EXCEPT !.total = loc[p].total]]
  /\ pc' = [pc EXCEPT ![p] = "finally"]
  /\ UNCHANGED <<drawings, teams, nextOid, req, client, loc>>

\* --------------------------------------------------------- getLeaderboard
\* the collection's natural order, as find() without sort returns it
InkBeforeUnsorted(i, j) == i < j

InkBefore(i, j) ==
  \/ ink[i].distance > ink[j].distance
  \/ ink[i].distance = ink[j].distance /\ i < j

InkOrder == {o \in (DOMAIN ink) \X (DOMAIN ink) : InkBefore(o[1], o[2])}

LeaderboardView(i) == [username |-> ink[i].username, distance |-> ink[i].distance]

GL_Find(p) ==
  /\ pc[p] = "gl_find"
  /\ LET results == Limit(Sorted(DOMAIN ink, InkOrder), LeaderboardLimit) IN
       resp' = [resp EXCEPT ![p] =
         [Resp(200, "") EXCEPT
            !.list = [k \in DOMAIN results |-> LeaderboardView(results[k])]]]
  /\ pc' = [pc EXCEPT ![p] = "finally"]
  /\ UNCHANGED <<store, req, client, loc>>

\* ------------------------------------------------------------ saveDrawing
NewDrawing(r, now) ==
  [email |-> r.email,
   username |-> IF Truthy(r.username) THEN r.username ELSE "Anonymous",
   coordinates |-> r.coordinates.a,
   createdAt |-> TimeOr(r.timestamp, now),
   voteCount |-> 0,
   votes |-> <<>>,
   isPublic |-> (r.isPublic = "true"),
   teamIds |-> IF IsArray(r.teamIds) THEN r.teamIds.a ELSE <<>>]

SD_InsertOne(p) ==
  /\ pc[p] = "sd_insertOne"
  /\ \E now \in ServerTimes :
       drawings' = drawings @@ (nextOid :> NewDrawing(req[p], now))
  /\ nextOid' = nextOid + 1
  /\ IF IsArray(req[p].teamIds) /\ Len(req[p].teamIds.a) > 0
       THEN /\ loc' = [loc EXCEPT ![p].did = OidToString(nextOid),
                                   ![p].pending = DOMAIN req[p].teamIds.a]
            /\ pc' = [pc EXCEPT ![p] = "sd_teams"]
            /\ UNCHANGED resp
       ELSE /\ loc' = [loc EXCEPT ![p].did = OidToString(nextOid)]
            /\ resp' = [resp EXCEPT ![p] =
                 [Resp(200, "Drawing saved successfully") EXCEPT
                    !.id = OidToString(nextOid)]]
            /\ pc' = [pc EXCEPT ![p] = "finally"]
  /\ UNCHANGED <<ink, teams, req, client>>

\* the update applied to the first team of the collection, whatever the id
TeamsAddDrawingFirst(tid, drawingId) ==
  IF tid \in DOMAIN teams
    THEN LET t == CHOOSE x \in DOMAIN teams : \A y \in DOMAIN teams : x <= y IN
         [teams EXCEPT ![t].drawingIds = AddToSet(@, drawingId)]
    ELSE teams

\* the update with the team's own id pushed in place of the drawing's
TeamsAddDrawingTeamId(tid, drawingId) ==
  IF tid \in DOMAIN teams
    THEN [teams EXCEPT ![tid].drawingIds = AddToSet(@, OidToString(tid))]
    ELSE teams

\* teamsCollection.updateOne({_id}, {$addToSet: {drawingIds: drawingId}})
TeamsAddDrawing(tid, drawingId) ==
  IF tid \in DOMAIN teams
    THEN [teams EXCEPT ![tid].drawingIds = AddToSet(@, drawingId)]
    ELSE teams

\* One of the updates Promise.all runs, in any order.  new ObjectId(teamId)
\* throws on a malformed id and updateOne may reject (rejects): either way
\* the inner catch logs the error and the update is skipped.  When all of
\* them have settled the handler answers 200.
SD_TeamUpdate(p) ==
  /\ pc[p] = "sd_teams"
  /\ \E i \in loc[p].pending, rejects \in BOOLEAN :
       LET teamId == req[p].teamIds.a[i]
           threw == rejects \/ ~IsValidOid(teamId)
           left == loc[p].pending \ {i}
       IN
       /\ teams' = IF threw THEN teams
                    ELSE TeamsAddDrawing(ParseOid(teamId), loc[p].did)
       /\ loc' = [loc EXCEPT
                    ![p].pending = left,
                    ![p].failed = IF threw THEN @ \cup {i} ELSE @]
       /\ IF left = {}
            THEN /\ resp' = [resp EXCEPT ![p] =
                      [Resp(200, "Drawing saved successfully") EXCEPT
                         !.id = loc[p].did]]
                 /\ pc' = [pc EXCEPT ![p] = "finally"]
            ELSE UNCHANGED <<resp, pc>>
  /\ UNCHANGED <<ink, drawings, nextOid, req, client>>

\* --------------------------------------------------------- voteForDrawing
\* the existence check matching on the drawing owner's email instead
HasVotedOwner(d, voterEmail) ==
  /\ d \in DOMAIN drawings
  /\ \E k \in DOMAIN drawings[d].votes : drawings[d].votes[k].voterEmail = drawings[d].email

\* findOne({_id, "votes.voterEmail": voterEmail}) is not null
HasVoted(d, voterEmail) ==
  /\ d \in DOMAIN drawings
  /\ \E k \in DOMAIN drawings[d].votes : drawings[d].votes[k].voterEmail = voterEmail

V_FindOne(p) ==
  /\ pc[p] = "v_findOne"
  /\ IF ~IsValidOid(req[p].drawingId)
       THEN \* new ObjectId(drawingId) throws: outer catch
            /\ resp' = [resp EXCEPT ![p] = Resp(500, CatchMessage(req[p].op))]
            /\ pc' = [pc EXCEPT ![p] = "finally"]
       ELSE IF HasVoted(ParseOid(req[p].drawingId), req[p].voterEmail)
       THEN /\ resp' = [resp EXCEPT ![p] =
                 Resp(400, "User has already voted for this drawing")]
            /\ pc' = [pc EXCEPT ![p] = "finally"]
       ELSE /\ pc' = [pc EXCEPT ![p] = "v_updateOne"]
            /\ UNCHANGED resp
  /\ UNCHANGED <<store, req, client, loc>>

\* the update without its $inc
PushVoteNoInc(doc, voterEmail, now) ==
  [doc EXCEPT !.votes = Append(@, [voterEmail |-> voterEmail, timestamp |-> now])]

\* the update with the vote pushed under the drawing owner's email
PushVoteOwner(doc, voterEmail, now) ==
  [doc EXCEPT !.votes = Append(@, [voterEmail |-> doc.email, timestamp |-> now]),
              !.voteCount = @ + 1]

\* the update that also stamps the drawing with the time of the vote
PushVoteStamp(doc, voterEmail, now) ==
  [doc EXCEPT !.votes = Append(@, [voterEmail |-> voterEmail, timestamp |-> now]),
              !.voteCount = @ + 1,
              !.createdAt = now + 1]

\* {$push: {votes: {voterEmail, timestamp}}, $inc: {voteCount: 1}}
PushVote(doc, voterEmail, now) ==
  [doc EXCEPT !.votes = Append(@, [voterEmail |-> voterEmail, timestamp |-> now]),
              !.voteCount = @ + 1]

V_UpdateOne(p) ==
  /\ pc[p] = "v_updateOne"
  /\ LET d == ParseOid(req[p].drawingId) IN
       IF d \in DOMAIN drawings
         THEN /\ \E now \in ServerTimes :
                   drawings' = [drawings EXCEPT
                                  ![d] = PushVote(@, req[p].voterEmail, now)]
              /\ resp' = [resp EXCEPT ![p] = Resp(200, "Vote recorded successfully")]
         ELSE \* modifiedCount === 0
              /\ resp' = [resp EXCEPT ![p] = Resp(404, "Drawing not found")]
              /\ UNCHANGED drawings
  /\ pc' = [pc EXCEPT ![p] = "finally"]
  /\ UNCHANGED <<ink, teams, nextOid, req, client, loc>>

\* ------------------------------------------------------ getDrawingsSorted
\* {voteCount: -1, createdAt: -1}; equal keys come in insertion order
ByVotes(x, y) ==
  \/ drawings[x].voteCount > drawings[y].voteCount
  \/ /\ drawings[x].voteCount = drawings[y].voteCount
     /\ drawings[x].createdAt > drawings[y].createdAt
  \/ /\ drawings[x].voteCount = drawings[y].voteCount
     /\ drawings[x].createdAt = drawings[y].createdAt
     /\ x < y

\* {createdAt: -1}
ByDate(x, y) ==
  \/ drawings[x].createdAt > drawings[y].createdAt
  \/ drawings[x].createdAt = drawings[y].createdAt /\ x < y

DrawingView(d) ==
  [id |-> OidToString(d), username |-> drawings[d].username,
   coordinates |-> drawings[d].coordinates, createdAt |-> drawings[d].createdAt,
   voteCount |-> drawings[d].voteCount]

\* the filter of the earlier revision of the handler: find({})
AllDrawings == DOMAIN drawings

\* find({isPublic: true})
PublicDrawings == {d \in DOMAIN drawings : drawings[d].isPublic}

\* const sortOptions = sortBy === "votes" ? {...} : {...}
SortOptions(sortBy) ==
  {o \in (DOMAIN drawings) \X (DOMAIN drawings) :
     IF sortBy = "votes" THEN ByVotes(o[1], o[2]) ELSE ByDate(o[1], o[2])}

SortedDrawings(sortBy) ==
  Limit(Sorted(PublicDrawings, SortOptions(sortBy)), DrawingsLimit)

GDS_Find(p) ==
  /\ pc[p] = "gds_find"
  /\ LET found == SortedDrawings(req[p].sortBy) IN
       resp' = [resp EXCEPT ![p] =
         [Resp(200, "") EXCEPT
            !.list = [k \in DOMAIN found |-> DrawingView(found[k])]]]
  /\ pc' = [pc EXCEPT ![p] = "finally"]
  /\ UNCHANGED <<store, req, client, loc>>

\* ------------------------------------------------------------- createTeam
\* the document carries no drawingIds field; an absent field and an empty
\* array are both the empty sequence here (team.drawingIds || [])
NewTeam(r, now) ==
  [teamName |-> r.teamName, creatorEmail |-> r.email, createdAt |-> now,
   drawingIds |-> <<>>]

CT_InsertOne(p) ==
  /\ pc[p] = "ct_insertOne"
  /\ \E now \in ServerTimes :
       teams' = teams @@ (nextOid :> NewTeam(req[p], now))
  /\ nextOid' = nextOid + 1
  /\ resp' = [resp EXCEPT ![p] =
       [Resp(200, "Team created successfully") EXCEPT !.id = OidToString(nextOid)]]
  /\ pc' = [pc EXCEPT ![p] = "finally"]
  /\ UNCHANGED <<ink, drawings, req, client, loc>>

\* --------------------------------------------------------------- getTeams
TeamByDate(x, y) ==
  \/ teams[x].createdAt > teams[y].createdAt
  \/ teams[x].createdAt = teams[y].createdAt /\ x < y

TeamView(t) ==
  [id |-> OidToString(t), teamName |-> teams[t].teamName,
   creatorEmail |-> teams[t].creatorEmail, createdAt |-> teams[t].createdAt]

GT_Find(p) ==
  /\ pc[p] = "gt_find"
  /\ LET found == Sorted({t \in DOMAIN teams : teams[t].creatorEmail = req[p].email},
                         {o \in (DOMAIN teams) \X (DOMAIN teams) : TeamByDate(o[1], o[2])}) IN
       resp' = [resp EXCEPT ![p] =
         [Resp(200, "") EXCEPT
            !.list = [k \in DOMAIN found |-> TeamView(found[k])]]]
  /\ pc' = [pc EXCEPT ![p] = "finally"]
  /\ UNCHANGED <<store, req, client, loc>>

\* -------------------------------------------------------- getTeamDrawings
GTD_FindOne(p) ==
  /\ pc[p] = "gtd_findOne"
  /\ IF ~IsValidOid(req[p].teamId)
       THEN \* new ObjectId(teamId) throws: outer catch
            /\ resp' = [resp EXCEPT ![p] = Resp(500, CatchMessage(req[p].op))]
            /\ pc' = [pc EXCEPT ![p] = "finally"]
            /\ UNCHANGED loc
       ELSE IF ParseOid(req[p].teamId) \notin DOMAIN teams
       THEN /\ resp' = [resp EXCEPT ![p] =
                 Resp(403, "User is not a member of this team or team does not exist")]
            /\ pc' = [pc EXCEPT ![p] = "finally"]
            /\ UNCHANGED loc
       ELSE IF Len(teams[ParseOid(req[p].teamId)].drawingIds) = 0
       THEN /\ resp' = [resp EXCEPT ![p] = Resp(200, "")]
            /\ pc' = [pc EXCEPT ![p] = "finally"]
            /\ UNCHANGED loc
       ELSE /\ loc' = [loc EXCEPT ![p].ids = teams[ParseOid(req[p].teamId)].drawingIds]
            /\ pc' = [pc EXCEPT ![p] = "gtd_find"]
            /\ UNCHANGED resp
  /\ UNCHANGED <<store, req, client>>

TeamDrawingView(d) ==
  [id |-> OidToString(d), username |-> drawings[d].username,
   coordinates |-> drawings[d].coordinates, createdAt |-> drawings[d].createdAt,
   voteCount |-> drawings[d].voteCount, isPublic |-> drawings[d].isPublic]

\* find({_id: {$in: objectIds}}).sort({createdAt: -1})
GTD_Find(p) ==
  /\ pc[p] = "gtd_find"
  /\ IF \E k \in DOMAIN loc[p].ids : ~IsValidOid(loc[p].ids[k])
       THEN \* new ObjectId(id) throws: outer catch
            resp' = [resp EXCEPT ![p] = Resp(500, CatchMessage(req[p].op))]
       ELSE LET objectIds == {ParseOid(loc[p].ids[k]) : k \in DOMAIN loc[p].ids}
                found == Sorted({d \in DOMAIN drawings : d \in objectIds},
                                SortOptions("date"))
            IN resp' = [resp EXCEPT ![p] =
                 [Resp(200, "") EXCEPT
                    !.list = [k \in DOMAIN found |-> TeamDrawingView(found[k])]]]
  /\ pc' = [pc EXCEPT ![p] = "finally"]
  /\ UNCHANGED <<store, req, client, loc>>

\* ---------------------------------------------------------- specifications
\* the steps of a handler whose awaited store calls resolve
HandlerStep(p) ==
  \/ Connect(p)
  \/ Finally(p)
  \/ UD_FindOne(p)
  \/ UD_UpdateOne(p)
  \/ UD_Upsert(p)
  \/ GL_Find(p)
  \/ SD_InsertOne(p)
  \/ SD_TeamUpdate(p)
  \/ V_FindOne(p)
  \/ V_UpdateOne(p)
  \/ GDS_Find(p)
  \/ CT_InsertOne(p)
  \/ GT_Find(p)
  \/ GTD_FindOne(p)
  \/ GTD_Find(p)

Step(p) == HandlerStep(p) \/ StoreError(p)

\* requests run concurrently: their store calls interleave in any order
Next == \E p \in Procs : Begin(p) \/ Step(p)
Spec == Init /\ [][Next]_vars

\* requests run one at a time
SeqNext == \E p \in Procs : BeginOneAtATime(p) \/ Step(p)
SeqSpec == Init /\ [][SeqNext]_vars

\* requests run one at a time and no store call outside the team updates
\* of saveDrawing rejects
ServedNext == \E p \in Procs : BeginOneAtATime(p) \/ HandlerStep(p)
ServedSpec == Init /\ [][ServedNext]_vars

\* A store that earlier requests have filled: three drawings saved by
\* saveDrawing with client timestamps, then voted on by voteForDrawing.
VotesOf(voters) ==
  [k \in DOMAIN voters |-> [voterEmail |-> voters[k], timestamp |-> 2]]

SavedDrawing(createdAt, isPublic, voters) ==
  [NewDrawing(SaveDrawingReq("a@x.com", Coords, NotArray("undefined"),
                             IF isPublic THEN "true" ELSE UNDEF, createdAt), 2)
     EXCEPT !.votes = VotesOf(voters), !.voteCount = Len(voters)]

FilledDrawings ==
  {<<SavedDrawing(3, TRUE, <<>>),
     SavedDrawing(1, TRUE, <<"b@x.com">>),
     SavedDrawing(2, FALSE, <<"a@x.com", "b@x.com">>)>>,
   <<SavedDrawing(1, TRUE, <<"a@x.com">>),
     SavedDrawing(2, FALSE, <<>>),
     SavedDrawing(3, TRUE, <<"a@x.com">>)>>}

ListInit ==
  /\ ink = <<>>
  /\ drawings \in FilledDrawings
  /\ teams = <<>>
  /\ nextOid = Len(drawings) + 1
  /\ pc = [p \in Procs |-> "idle"]
  /\ req = [p \in Procs |-> Blank]
  /\ client = [p \in Procs |-> "none"]
  /\ loc = [p \in Procs |-> NoLoc]
  /\ resp = [p \in Procs |-> NoResp]

\* listings and votes on the filled store, concurrently
ListBodies ==
  {SortedReq("votes"), SortedReq("date"), SortedReq("other")}
  \cup {VoteReq(d, v) : d \in DrawingIdStrs, v \in Emails}

BeginList(p) == \E r \in ListBodies : BeginReq(p, r, FALSE)

ListNext ==
  \E p \in Procs :
    \/ BeginList(p)
    \/ Connect(p)
    \/ StoreError(p)
    \/ Finally(p)
    \/ V_FindOne(p)
    \/ V_UpdateOne(p)
    \/ GDS_Find(p)
ListSpec == ListInit /\ [][ListNext]_vars

\* Every awaited call settles: it resolves, or it rejects at the latest
\* when connectTimeoutMS or socketTimeoutMS runs out, and the event loop
\* then runs the handler's continuation.
LiveSpec == Spec /\ \A p \in Procs : WF_vars(Step(p))

\* ======================================================================
\* Properties
\* ======================================================================
IsVote(p) == req[p].op = "voteForDrawing" /\ ValidationError(req[p]) = ""
DuplicateVote == Resp(400, "User has already voted for this drawing")
VoteRecorded == Resp(200, "Vote recorded successfully")
DrawingNotFound == Resp(404, "Drawing not found")

\* C1: in every reachable state, under any interleaving of saveDrawing and
\* voteForDrawing requests, every drawing has voteCount = length(votes).
C1_VoteCountIsVotesLength ==
  \A d \in DOMAIN drawings : drawings[d].voteCount = Len(drawings[d].votes)

\* a drawing that two votes have been recorded on
C1_Witness ==
  \E d \in DOMAIN drawings :
    Len(drawings[d].votes) = 2 /\ drawings[d].voteCount = 2

\* C2: in every reachable state, concurrent votes included, the votes of a
\* drawing hold at most one entry per voterEmail.
C2_OneVotePerVoter ==
  \A d \in DOMAIN drawings :
    \A i, j \in DOMAIN drawings[d].votes :
      drawings[d].votes[i].voterEmail = drawings[d].votes[j].voterEmail => i = j

\* q repeats a vote: an earlier request p with the same drawing and voter,
\* on a stored drawing, has completed without a store failure
RepeatsVote(q) ==
  /\ IsVote(q)
  /\ \E p \in Procs :
       /\ p < q /\ IsVote(p) /\ pc[p] = "done"
       /\ req[p].drawingId = req[q].drawingId
       /\ req[p].voterEmail = req[q].voterEmail
       /\ resp[p] \in {VoteRecorded, DuplicateVote}

\* C3: with requests one at a time, once a vote(d, u) on a stored drawing d
\* has completed, a second vote(d, u) that the store serves is answered
\* with the 'already voted' client error, and no step of it changes any
\* drawing (voteCount and votes stay as they were).
C3_SecondVoteRejected ==
  /\ [](\A q \in Procs :
         RepeatsVote(q) /\ pc[q] = "done" /\ resp[q].status # 500
           => resp[q] = DuplicateVote)
  /\ [][\A q \in Procs :
         RepeatsVote(q)' /\ pc[q] # "done" => drawings' = drawings]_vars

\* a repeated vote has been answered, the first one having been recorded
C3_Witness ==
  \E q \in Procs :
    /\ RepeatsVote(q) /\ pc[q] = "done" /\ resp[q] = DuplicateVote
    /\ \E p \in Procs : p < q /\ resp[p] = VoteRecorded
                          /\ req[p].drawingId = req[q].drawingId
                          /\ req[p].voterEmail = req[q].voterEmail

\* C4: the update step of every voteForDrawing(d, u) that answers success
\* raises d's voteCount by exactly 1 and appends exactly one entry, whose
\* voterEmail is u, to d's votes, in one step and in any interleaving.
C4_VoteAddsExactlyOne ==
  [][\A p \in Procs :
       resp[p] # VoteRecorded /\ resp'[p] = VoteRecorded =>
         LET d == ParseOid(req[p].drawingId) IN
         /\ d \in DOMAIN drawings
         /\ drawings'[d].voteCount = drawings[d].voteCount + 1
         /\ Len(drawings'[d].votes) = Len(drawings[d].votes) + 1
         /\ SubSeq(drawings'[d].votes, 1, Len(drawings[d].votes)) = drawings[d].votes
         /\ drawings'[d].votes[Len(drawings'[d].votes)].voterEmail = req[p].voterEmail]_vars

\* a vote by b was recorded on a drawing of a while another vote was in flight
C4_Witness ==
  \E p, q \in Procs :
    /\ p # q /\ IsVote(p) /\ IsVote(q)
    /\ resp[p] = VoteRecorded /\ req[p].voterEmail = "b@x.com"
    /\ pc[q] = "v_updateOne"
    /\ req[p].drawingId = req[q].drawingId

IsAccumulate(p) == req[p].op = "updateDistance" /\ resp[p].status = 200

\* the accumulate requests for q's email answered with success before q
EarlierAccumulates(q) ==
  {p \in Procs : p < q /\ IsAccumulate(p) /\ req[p].email = req[q].email}

LastOf(S) == CHOOSE p \in S : \A o \in S : o <= p

StoredDistance(email) == ink[FindInk(email)].distance

\* C5: with requests one at a time, accumulate(email, d1) on a store with no
\* record for email reports 'Record created' and totalDistance d1; a
\* following accumulate(email, d2) reports 'Record updated' and the previous
\* total plus d2 (d1 + d2), and that total is the distance stored for email.
C5_AccumulateAddsUp ==
  \A q \in Procs :
    IsAccumulate(q) =>
      /\ IF EarlierAccumulates(q) = {}
           THEN /\ resp[q].msg = "Record created"
                /\ resp[q].total = req[q].distance.n
           ELSE /\ resp[q].msg = "Record updated"
                /\ resp[q].total =
                     resp[LastOf(EarlierAccumulates(q))].total + req[q].distance.n
      /\ (\A o \in Procs : q \in EarlierAccumulates(o) => ~IsAccumulate(o))
           => /\ FindInk(req[q].email) # 0
              /\ StoredDistance(req[q].email) = resp[q].total

\* accumulate(a, 1) created the record and accumulate(a, 2) then reported 3
C5_Witness ==
  \E p, q \in Procs :
    /\ IsAccumulate(p) /\ IsAccumulate(q) /\ p < q
    /\ req[p].email = "a@x.com" /\ req[q].email = "a@x.com"
    /\ req[p].distance.n = 1 /\ req[q].distance.n = 2
    /\ resp[p].msg = "Record created" /\ resp[p].total = 1
    /\ resp[q].msg = "Record updated" /\ resp[q].total = 3
    /\ StoredDistance("a@x.com") = 3

\* C6: the distance stored for an email never decreases from one state to
\* the next, in any interleaving of updateDistance requests.  Stated here
\* for behaviours in which every request carries a non-negative distance.
C6_DistanceNeverDecreases ==
  [][(\A p \in Procs : req'[p].distance.n >= 0) =>
       \A i \in DOMAIN ink : ink'[i].distance >= ink[i].distance]_vars

IsSave(p) == req[p].op = "saveDrawing" /\ ValidationError(req[p]) = ""
Inserted(p) == IsSave(p) /\ loc[p].did # ""
Settled(p) == pc[p] \in {"finally", "done"}
DrawingSaved(p) ==
  [Resp(200, "Drawing saved successfully") EXCEPT !.id = loc[p].did]

\* the i-th entry of the request's teamIds names a stored team and its
\* update was not skipped by the inner catch
TeamUpdated(p, i) ==
  /\ i \notin loc[p].failed
  /\ IsValidOid(req[p].teamIds.a[i])
  /\ ParseOid(req[p].teamIds.a[i]) \in DOMAIN teams

\* C7: a saveDrawing request with valid email and coordinates whose insert
\* went through answers success with the id of the drawing it inserted,
\* whichever of its team updates failed or named no team; and every stored
\* team of teamIds whose own update did not fail holds that id in drawingIds.
C7_SavePartialSuccess ==
  \A p \in Procs :
    Inserted(p) /\ Settled(p) =>
      /\ resp[p] = DrawingSaved(p)
      /\ IsValidOid(loc[p].did)
      /\ ParseOid(loc[p].did) \in DOMAIN drawings
      /\ drawings[ParseOid(loc[p].did)].email = req[p].email
      /\ \A i \in DOMAIN req[p].teamIds.a :
           TeamUpdated(p, i) =>
             loc[p].did \in Range(teams[ParseOid(req[p].teamIds.a[i])].drawingIds)

\* a save with two teamIds, one update skipped (a team that does not exist,
\* a malformed id or a rejected update) and the other applied
C7_Witness ==
  \E p \in Procs :
    /\ Inserted(p) /\ pc[p] = "done" /\ resp[p].status = 200
    /\ \E i, j \in DOMAIN req[p].teamIds.a :
         /\ i # j
         /\ TeamUpdated(p, i)
         /\ loc[p].did \in Range(teams[ParseOid(req[p].teamIds.a[i])].drawingIds)
         /\ ~TeamUpdated(p, j)

\* the drawing a completed saveDrawing request stored
StoredBy(p) == drawings[ParseOid(loc[p].did)]

StringField(v) == IsString(v)

\* a required field of the request is absent or of the wrong type
\* (the input fields of each operation and their types)
MissingOrMistyped(r) ==
  CASE r.op = "updateDistance" -> ~StringField(r.email) \/ r.distance.t # "number"
    [] r.op = "saveDrawing" -> ~StringField(r.email) \/ r.coordinates.t # "array"
    [] r.op = "voteForDrawing" -> ~StringField(r.drawingId) \/ ~StringField(r.voterEmail)
    [] r.op = "getDrawingsSorted" -> r.sortBy \notin {"votes", "date"}
    [] r.op = "createTeam" -> ~StringField(r.teamName) \/ ~StringField(r.email)
    [] r.op = "getTeams" -> ~StringField(r.email)
    [] r.op = "getTeamDrawings" -> ~StringField(r.teamId)
    [] OTHER -> FALSE

InvalidInputMessages ==
  {"Request must include an 'email' parameter of type string",
   "Request must include a 'distance' parameter of type number",
   "Request must include a 'coordinates' parameter of type array",
   "Request must include a 'drawingId' parameter of type string",
   "Request must include a 'voterEmail' parameter of type string",
   "Query must include a 'sortBy' parameter with value 'votes' or 'date'",
   "Request must include a 'teamName' parameter of type string",
   "Request must include a 'teamId' parameter of type string"}

\* C9: a request of any of the seven handlers with a required field absent
\* or of the wrong type is answered 400 with the handler's InvalidInput
\* message in its first step, never has a MongoClient, and its arrival
\* leaves the three collections as they were.
C9_InvalidInputBeforeStore ==
  /\ [](\A p \in Procs :
         MissingOrMistyped(req[p]) =>
           /\ pc[p] = "done"
           /\ resp[p].status = 400 /\ resp[p].msg \in InvalidInputMessages
           /\ client[p] = "none")
  /\ [][\A p \in Procs :
         MissingOrMistyped(req'[p]) /\ pc[p] = "idle" /\ pc'[p] # "idle"
           => <<ink, drawings, teams>>' = <<ink, drawings, teams>>]_vars

\* malformed requests of three different handlers were answered 400 on a
\* store that holds a drawing
C9_Witness ==
  /\ DOMAIN drawings # {}
  /\ \E p \in Procs :
       /\ MissingOrMistyped(req[p]) /\ resp[p].status = 400
       /\ req[p].op = "getTeamDrawings" /\ req[p].teamId = NONSTR
  /\ \E p \in Procs :
       /\ MissingOrMistyped(req[p]) /\ resp[p].status = 400
       /\ req[p].op = "updateDistance" /\ req[p].distance.t = "string"

Opened(p) == client[p] \in {"created", "connected"}

\* C10: a handler that has finished has closed the MongoClient it built
\* (only a request rejected by validation has none), on every exit path;
\* and every MongoClient a request builds is eventually closed.
C10_ConnectionsClosed ==
  /\ [](\A p \in Procs :
         pc[p] = "done" =>
           \/ client[p] = "closed"
           \/ client[p] = "none" /\ ValidationError(req[p]) # "")
  /\ \A p \in Procs : Opened(p) ~> (client[p] = "closed" /\ pc[p] = "done")

\* three handlers have finished with their clients closed: one answered
\* 'drawing not found', one 'not a member or no such team', and one could
\* not connect
C10_Witness ==
  \E p, q, o \in Procs :
    /\ pc[p] = "done" /\ client[p] = "closed" /\ resp[p] = DrawingNotFound
    /\ pc[q] = "done" /\ client[q] = "closed" /\ resp[q].status = 403
    /\ pc[o] = "done" /\ client[o] = "closed" /\ resp[o].status = 500
    /\ loc[o] = NoLoc /\ req[o].op = "getLeaderboard"

MatchesNoDrawing(id) == ~(IsValidOid(id) /\ ParseOid(id) \in DOMAIN drawings)

\* C11: a voteForDrawing request whose drawingId is a string that matches no
\* drawing document is answered 404 'Drawing not found' (neither the
\* 'already voted' error nor the generic failure), the store calls resolving.
C11_UnmatchedVoteNotFound ==
  \A p \in Procs :
    IsVote(p) /\ pc[p] = "done" /\ MatchesNoDrawing(req[p].drawingId)
      => resp[p] = DrawingNotFound

IsListing(p) == req[p].op = "getDrawingsSorted"

\* the listing q is ordered as sortBy asks
OrderedAs(sortBy, q) ==
  \A k \in 1..(Len(q) - 1) :
    IF sortBy = "votes"
      THEN \/ q[k].voteCount > q[k + 1].voteCount
           \/ /\ q[k].voteCount = q[k + 1].voteCount
              /\ q[k].createdAt >= q[k + 1].createdAt
      ELSE q[k].createdAt >= q[k + 1].createdAt

\* the listing q against the Drawings collection ds it was read from
ListsPublicOf(q, ds) ==
  /\ Len(q) <= DrawingsLimit
  /\ \A k \in DOMAIN q :
       /\ "email" \notin DOMAIN q[k]
       /\ IsValidOid(q[k].id)
       /\ ParseOid(q[k].id) \in DOMAIN ds
       /\ ds[ParseOid(q[k].id)].isPublic = TRUE
       /\ q[k].voteCount = ds[ParseOid(q[k].id)].voteCount
       /\ q[k].createdAt = ds[ParseOid(q[k].id)].createdAt
       /\ \A j \in DOMAIN q : q[j].id = q[k].id => j = k
  /\ Cardinality({d \in DOMAIN ds : ds[d].isPublic}) <= DrawingsLimit
       => \A d \in DOMAIN ds : ds[d].isPublic => \E k \in DOMAIN q : q[k].id = OidToString(d)

IsTeamDrawings(p) == req[p].op = "getTeamDrawings"

MatchesNoTeam(id) == ~(IsValidOid(id) /\ ParseOid(id) \in DOMAIN teams)

TeamNotFound == Resp(403, "User is not a member of this team or team does not exist")

\* the drawings that exist and whose id is among the strings ids
ExistingAmong(ids) == {d \in DOMAIN drawings : OidToString(d) \in Range(ids)}

\* C13: a getTeamDrawings request with a string teamId is answered 403 (the
\* combined not-a-member / no-such-team error) when no team matches teamId;
\* with the empty list and no query of the drawings when the team's
\* drawingIds is empty or absent; and otherwise with exactly the existing
\* drawings whose id is in the team's drawingIds, newest first.
C13_TeamDrawingsContract ==
  [][\A p \in Procs :
       /\ IsTeamDrawings(p) /\ ValidationError(req[p]) = ""
       /\ pc[p] \in {"gtd_findOne", "gtd_find"} /\ pc'[p] # pc[p]
       => IF MatchesNoTeam(req[p].teamId)
            THEN resp'[p] = TeamNotFound
          ELSE IF Len(teams[ParseOid(req[p].teamId)].drawingIds) = 0
            THEN /\ pc[p] = "gtd_findOne" /\ pc'[p] = "finally"
                 /\ resp'[p].status = 200 /\ resp'[p].list = <<>>
          ELSE IF pc[p] = "gtd_findOne"
            THEN pc'[p] = "gtd_find" /\ resp'[p].status = 0
          ELSE LET q == resp'[p].list IN
                 /\ resp'[p].status = 200
                 /\ {q[k].id : k \in DOMAIN q} =
                      {OidToString(d) : d \in ExistingAmong(teams[ParseOid(req[p].teamId)].drawingIds)}
                 /\ \A j, k \in DOMAIN q : q[j].id = q[k].id => j = k
                 /\ OrderedAs("date", q)]_vars

IsLeaderboard(p) == req[p].op = "getLeaderboard"

\* how many entries of the sequence q equal v
CountOf(q, v) == Cardinality({k \in DOMAIN q : q[k] = v})

\* the accumulate requests answered with success, for the email of o, after o
LaterAccumulates(o) ==
  {p \in Procs : o < p /\ IsAccumulate(p) /\ req[p].email = req[o].email}

C15_OneRecordPerEmail ==
  /\ [](\A i, j \in DOMAIN ink : ink[i].email = ink[j].email => i = j)
  /\ [][\A i \in DOMAIN ink :
         i \in DOMAIN ink' /\ ink'[i].email = ink[i].email]_vars

DrawingFields ==
  {"email", "username", "coordinates", "createdAt", "voteCount", "votes",
   "isPublic", "teamIds"}

\* p takes the updateOne step of a vote for the drawing d
VoteStepOn(p, d) ==
  /\ IsVote(p) /\ pc[p] = "v_updateOne" /\ pc'[p] = "finally"
  /\ IsValidOid(req[p].drawingId) /\ ParseOid(req[p].drawingId) = d

\* C16: a drawing appears only by the insert step of a saveDrawing request,
\* with every field present, voteCount 0 and no votes; no step removes a
\* drawing; a step that changes an existing drawing is the updateOne step of
\* a vote naming that drawing, it changes nothing but votes and voteCount,
\* and it leaves every other drawing as it was.
C16_OnlyVotesChangeDrawings ==
  [][/\ \A d \in DOMAIN drawings : d \in DOMAIN drawings'
     /\ \A d \in (DOMAIN drawings') \ (DOMAIN drawings) :
          /\ \E p \in Procs : IsSave(p) /\ pc[p] = "sd_insertOne"
                                /\ loc'[p].did = OidToString(d)
          /\ DOMAIN drawings'[d] = DrawingFields
          /\ drawings'[d].voteCount = 0
          /\ drawings'[d].votes = <<>>
          /\ \A e \in DOMAIN drawings : drawings'[e] = drawings[e]
     /\ \A d \in DOMAIN drawings :
          drawings'[d] # drawings[d] =>
            /\ \E p \in Procs : VoteStepOn(p, d)
            /\ drawings'[d] = [drawings[d] EXCEPT !.votes = drawings'[d].votes,
                                                  !.voteCount = drawings'[d].voteCount]
            /\ \A e \in (DOMAIN drawings) \ {d} : drawings'[e] = drawings[e]]_vars

\* two drawings, one voted on by a completed vote and the other left as
\* it was inserted
C16_Witness ==
  \E d, e \in DOMAIN drawings :
    /\ d # e
    /\ drawings[d].voteCount = 1 /\ Len(drawings[d].votes) = 1
    /\ drawings[e].voteCount = 0 /\ drawings[e].votes = <<>>
    /\ \E p \in Procs : IsVote(p) /\ pc[p] = "done" /\ resp[p] = VoteRecorded

\* C17: every id in a team's drawingIds is the id of a drawing that exists,
\* in every interleaving; so the ids a getTeamDrawings request read from a
\* team all resolve, and its answer lists one drawing for each of them.
C17_NoDanglingDrawingId ==
  /\ \A t \in DOMAIN teams : \A k \in DOMAIN teams[t].drawingIds :
       /\ IsValidOid(teams[t].drawingIds[k])
       /\ ParseOid(teams[t].drawingIds[k]) \in DOMAIN drawings
  /\ \A p \in Procs :
       IsTeamDrawings(p) =>
         /\ \A k \in DOMAIN loc[p].ids :
              /\ IsValidOid(loc[p].ids[k])
              /\ ParseOid(loc[p].ids[k]) \in DOMAIN drawings
         /\ resp[p].status = 200 =>
              {resp[p].list[k].id : k \in DOMAIN resp[p].list} = Range(loc[p].ids)

\* a getTeamDrawings request answered with the drawing its team references
C17_Witness ==
  \E p \in Procs :
    /\ IsTeamDrawings(p) /\ pc[p] = "done" /\ resp[p].status = 200
    /\ Len(resp[p].list) = 1
    /\ Range(teams[ParseOid(req[p].teamId)].drawingIds) = {resp[p].list[1].id}

RECURSIVE SumOfDeltas(_)
SumOfDeltas(S) ==
  IF S = {} THEN 0
  ELSE LET p == CHOOSE x \in S : TRUE IN
       req[p].distance.n + SumOfDeltas(S \ {p})

\* the updateDistance requests for email that wrote their total
Accumulated(email) == {p \in Procs : IsAccumulate(p) /\ req[p].email = email}

\* an updateDistance request for email is between its start and its answer
Accumulating(email) ==
  \E p \in Procs : /\ req[p].op = "updateDistance" /\ req[p].email = email
                    /\ pc[p] \notin {"idle", "done"}

\* C18: with updateDistance requests for one email running concurrently on a
\* store that had no record for it, once all of them have completed the
\* stored distance is the sum of the deltas of those that wrote; and the
\* total a request reports is the distance of the record at its write.
C18_ConcurrentAccumulatesAddUp ==
  /\ [](\A email \in Emails :
          Accumulated(email) # {} /\ ~Accumulating(email) =>
            StoredDistance(email) = SumOfDeltas(Accumulated(email)))
  /\ [][\A p \in Procs :
         req[p].op = "updateDistance" /\ resp[p].status = 0 /\ resp'[p].status = 200 =>
           \E i \in DOMAIN ink' :
             /\ ink'[i].email = req[p].email
             /\ ink'[i].distance = resp'[p].total]_vars

====
